---- MODULE Spec2Model ----
(***************************************************************************)
(* A model of the uccli state-machine CLI framework (src/uccli/main.py):   *)
(* State / StateMachine, the session store reached from on_state_changed,  *)
(* and GenericCLI's dispatch loop (cmdloop / onecmd).                      *)
(*                                                                         *)
(* Five specifications share the variables:                                *)
(*   SpecSM  the StateMachine API called in any order (add_state,          *)
(*           add_transition, transition, change_state);                    *)
(*   SpecStore  the StorageManager API and the session handlers called in  *)
(*           any order, next to a machine that persists its state changes; *)
(*   Spec    a GenericCLI over a transition graph chosen at construction,  *)
(*           driven through onecmd directly and through cmdloop.           *)
(*   SpecConcept  CounterCLI and AuthorListCLI of the test suite over the  *)
(*           GenericCLI of src/concepts/generalized.py, line after line;   *)
(*   SpecUI  the completer, the command registry and the wrapper of        *)
(*           input_required_command, applied once to an input drawn from   *)
(*           a bounded set.                                                *)
(***************************************************************************)
EXTENDS Integers, Sequences, FiniteSets, TLC

\* ------------------------------------------------------------------ bounds
\* longest command_history a session grows to
MaxHistory == 2
\* number of add_state / add_transition calls in SpecSM
MaxBuild == 3

\* ------------------------------------------------------------ value domains
\* Python's None
None == "None"

\* State objects.  Two of them are the states of DemoCLI (src/demo_uccli.py);
\* other_state is a second object carrying the name "authors_added".
StateObjs == {"initial_state", "authors_added_state", "other_state"}

\* State.name
StateName(o) ==
    IF o = "initial_state" THEN "initial" ELSE "authors_added"

StateNames == {StateName(o) : o \in StateObjs}

\* the command names a concrete CLI gives its edges and handlers
UserCommands == {"add_author", "list_authors"}

\* an empty dict
EmptyDict == [x \in {} |-> None]

VARIABLES
    \* StateMachine
    transitions,        \* State.transitions of every State object: a dict per object
    states,             \* StateMachine.states: name -> State object
    current_state,      \* StateMachine.current_state: a State object
    last_transition,    \* StateMachine.last_transition
    app,                \* StateMachine.app is set (to the owning CLI)
    \* StorageManager, SharedStorage and the session directory
    files,              \* session name -> persisted document
    current_session,    \* StorageManager.current_session
    shared_storage,     \* the SharedStorage object of the active session
    current_storage,    \* GenericCLI.current_storage: None or a reference to shared_storage
    \* GenericCLI
    has_do,             \* the command names for which the CLI class has a do_<name> method
    available_commands, \* GenericCLI.available_commands, as left by refresh_commands
    lastcmd,            \* cmd.Cmd.lastcmd
    fields,             \* the instance attributes a concrete CLI class adds
    dispatched,         \* the lines the embedding code has passed to onecmd so far
    \* control
    pc,                 \* position of the caller / of cmdloop / of onecmd
    mode,               \* "direct": onecmd called by the embedding code; "cmdloop"
    input,              \* the line handed to onecmd
    line,               \* onecmd's local line (the line being dispatched)
    result,             \* onecmd's local result (the handler's return value)
    stop,               \* the value onecmd returned / cmdloop's local stop
    nbuild,             \* construction calls made so far (SpecSM)
    \* observations of the current dispatch cycle / API call
    pre,                \* machine and session as they were when the cycle or call began
    handler_ran,        \* a do_<cmd> method was entered in this cycle
    returned_in,        \* the machine as it was when that method returned
    raised,             \* the exception that left the handler, or None
    moved,              \* StateMachine.transition was applied by onecmd in this cycle
    notified,           \* update_agent_clibase ran in this cycle
    output,             \* what the cycle printed
    call                \* the last StateMachine API call and what it returned

smvars == <<transitions, states, current_state, last_transition, app>>
stvars == <<files, current_session, shared_storage, current_storage>>
clivars == <<has_do, available_commands, lastcmd, fields, dispatched>>
ctlvars == <<pc, mode, input, line, result, stop, nbuild>>
obsvars == <<pre, handler_ran, returned_in, raised, moved, notified, output, call>>
vars == <<smvars, stvars, clivars, ctlvars, obsvars>>

\* --------------------------------------------------- SharedStorage (pure)
\* SharedStorage.__init__
NewSharedStorage ==
    [version |-> "1.0.0", data |-> EmptyDict, command_history |-> <<>>]

\* SharedStorage.update_data: self.data[key] = value
SharedStorage_update_data(s, key, value) ==
    [s EXCEPT !.data = (key :> value) @@ @]

\* (variant: the new entry put in front of the history)
SharedStorage_add_command_result_in_front(s, command, res) ==
    [s EXCEPT !.command_history =
        <<[command |-> command, result |-> res, timestamp |-> "isoformat"]>> \o @]

\* SharedStorage.add_command_result: append {command, result, timestamp}.
\* The timestamp is datetime.now().isoformat(); no operation of the program
\* reads it back, so the model keeps one opaque token for it.
SharedStorage_add_command_result(s, command, res) ==
    [s EXCEPT !.command_history =
        Append(@, [command |-> command, result |-> res, timestamp |-> "isoformat"])]

\* no SharedStorage object (Python's None where a SharedStorage is expected)
NoStorage ==
    [version |-> None, data |-> EmptyDict, command_history |-> <<>>]

\* Python values are written as the text of their literal.  "(1, 2)" is a
\* tuple and "date(2024, 1, 1)" a datetime.date; every other value of the model
\* is a str.
\* json.dumps(value, default=str) followed by json.loads: a tuple is written as
\* an array and read back as a list, a date is written through default=str and
\* read back as a str, a str is read back as itself
json_value(v) ==
    IF v = "(1, 2)" THEN "[1, 2]"
    ELSE IF v = "date(2024, 1, 1)" THEN "2024-01-01"
    ELSE v

\* the same for a dict with str keys
json_dict(d) ==
    [k \in DOMAIN d |-> json_value(d[k])]

\* SharedStorage.to_json: the document written to the session file (kept as
\* the value json.loads gives for the text)
to_json(s) ==
    [version |-> s.version,
     data |-> json_dict(s.data),
     command_history |->
        [i \in DOMAIN s.command_history |->
            [command |-> s.command_history[i].command,
             result |-> json_dict(s.command_history[i].result),
             timestamp |-> s.command_history[i].timestamp]]]

\* (variant: a reader that drops the history)
from_json_without_history(doc) ==
    [version |-> doc.version, data |-> doc.data, command_history |-> <<>>]

\* SharedStorage.from_json: the storage object read back from a document
from_json(doc) ==
    [version |-> doc.version, data |-> doc.data, command_history |-> doc.command_history]

\* the content of a session file that is no JSON document (an empty or
\* truncated file, text written by another program)
Unreadable ==
    [version |-> "<not json>", data |-> EmptyDict, command_history |-> <<>>]

\* json.loads in from_json raises json.JSONDecodeError, a ValueError
from_json_raises(doc) ==
    doc = Unreadable

\* (variant: a file that exists is left as it is)
save_to_file_keeps_existing(fs, name, s) ==
    fs @@ (name :> to_json(s))

\* SharedStorage.save_to_file on the session directory: whole-file overwrite
save_to_file(fs, name, s) ==
    (name :> to_json(s)) @@ fs

\* ------------------------------------------------------ StateMachine (pure)
\* keys of a State object's transition dict
Keys(o) == DOMAIN transitions[o]

\* (variant: the keys of the initial state, a snapshot never recomputed)
StateMachine_get_available_commands_stale ==
    Keys("initial_state")

\* StateMachine.get_available_commands
StateMachine_get_available_commands ==
    Keys(current_state)

\* the always_available set of GenericCLI.get_available_commands
always_available ==
    {"help", "exit", "new_session", "load_session", "list_sessions"}

\* (variant: every edge name of the graph, whatever the current state)
get_available_commands_any_state ==
    UNION {Keys(o) : o \in StateObjs} \cup always_available

\* GenericCLI.get_available_commands
get_available_commands ==
    StateMachine_get_available_commands \cup always_available

\* what the machine and the session look like: the snapshot kept in pre
Snapshot ==
    [current_state |-> current_state, last_transition |-> last_transition,
     shared_storage |-> shared_storage, files |-> files,
     current_session |-> current_session, current_storage |-> current_storage]

\* the machine's two fields
Machine ==
    [current_state |-> current_state, last_transition |-> last_transition]

\* no snapshot, no machine: the observations outside a cycle or call
NoSnapshot ==
    [current_state |-> None, last_transition |-> None,
     shared_storage |-> NoStorage, files |-> EmptyDict,
     current_session |-> None, current_storage |-> None]

NoMachine ==
    [current_state |-> None, last_transition |-> None]

NoCall ==
    [op |-> None, arg |-> None, ret |-> None]

\* room left in the active session's history (the model's bound on its growth)
HistoryRoom ==
    IF app /\ current_storage # None
    THEN Len(shared_storage.command_history) < MaxHistory
    ELSE TRUE

\* StateMachine.on_state_changed, entered with the machine already at cur / last
on_state_changed(cur, last) ==
    IF app /\ current_storage # None
    THEN LET s1 == SharedStorage_update_data(shared_storage, "current_state", StateName(cur))
             s2 == IF last # None
                   THEN SharedStorage_add_command_result(s1, last, [state |-> StateName(cur)])
                   ELSE s1
         IN  /\ shared_storage' = s2
             \* StorageManager.save_current_session
             /\ files' = save_to_file(files, current_session, s2)
             /\ UNCHANGED <<current_session, current_storage>>
    ELSE UNCHANGED stvars

\* (variant: the move without recording last_transition)
transition_forgets_command(command) ==
    IF command \in Keys(current_state)
    THEN /\ current_state' = transitions[current_state][command]
         /\ UNCHANGED last_transition
         /\ on_state_changed(transitions[current_state][command], last_transition)
    ELSE UNCHANGED <<current_state, last_transition, stvars>>

\* StateMachine.transition(command): the state change
transition(command) ==
    IF command \in Keys(current_state)
    THEN /\ current_state' = transitions[current_state][command]
         /\ last_transition' = command
         /\ on_state_changed(transitions[current_state][command], command)
    ELSE UNCHANGED <<current_state, last_transition, stvars>>

\* (variant: a call that reports success whatever the command)
transition_returns_always(command) ==
    TRUE

\* StateMachine.transition(command): its return value
transition_returns(command) ==
    command \in Keys(current_state)

\* StateMachine.change_state(new_state)
change_state(new_state) ==
    IF new_state \in DOMAIN states
    THEN /\ current_state' = states[new_state]
         /\ UNCHANGED last_transition
         /\ on_state_changed(states[new_state], last_transition)
    ELSE UNCHANGED <<current_state, last_transition, stvars>>

\* (variant: an edge already present for the command is kept)
add_transition_keeps_first(o, command, next_state) ==
    transitions' = [transitions EXCEPT ![o] = @ @@ (command :> next_state)]

\* State.add_transition(command, next_state) on State object o
add_transition(o, command, next_state) ==
    transitions' = [transitions EXCEPT ![o] = (command :> next_state) @@ @]

\* StateMachine.add_state(state)
add_state(o) ==
    states' = (StateName(o) :> o) @@ states

\* ------------------------------------------------------------------ SpecSM
\* The owning application either has no session and no back-reference, or has
\* set StateMachine.app and created session n1.
InitSM ==
    /\ transitions = [o \in StateObjs |-> EmptyDict]
    /\ states = ("initial" :> "initial_state")
    /\ current_state = "initial_state"
    /\ last_transition = None
    /\ \/ /\ app = FALSE
          /\ files = EmptyDict
          /\ current_session = None
          /\ shared_storage = NoStorage
          /\ current_storage = None
       \/ /\ app = TRUE
          /\ files = save_to_file(EmptyDict, "n1", NewSharedStorage)
          /\ current_session = "n1"
          /\ shared_storage = NewSharedStorage
          /\ current_storage = "shared_storage"
    /\ has_do = {}
    /\ available_commands = {}
    /\ lastcmd = <<>>
    /\ fields = EmptyDict
    /\ dispatched = <<>>
    /\ pc = "api"
    /\ mode = "api"
    /\ input = <<>>
    /\ line = <<>>
    /\ result = None
    /\ stop = None
    /\ nbuild = 0
    /\ pre = NoSnapshot
    /\ handler_ran = FALSE
    /\ returned_in = NoMachine
    /\ raised = None
    /\ moved = FALSE
    /\ notified = FALSE
    /\ output = None
    /\ call = [op |-> "__init__", arg |-> "initial_state", ret |-> None]

SMUnchanged ==
    UNCHANGED <<clivars, pc, mode, input, line, result, stop,
                handler_ran, returned_in, raised, moved, notified, output>>

SMAddState ==
    \E o \in StateObjs :
        /\ nbuild < MaxBuild
        /\ nbuild' = nbuild + 1
        /\ add_state(o)
        /\ pre' = Snapshot
        /\ call' = [op |-> "add_state", arg |-> o, ret |-> None]
        /\ UNCHANGED <<transitions, current_state, last_transition, app, stvars>>
        /\ SMUnchanged

SMAddTransition ==
    \E o \in StateObjs, c \in UserCommands, t \in StateObjs :
        /\ nbuild < MaxBuild
        /\ nbuild' = nbuild + 1
        /\ add_transition(o, c, t)
        /\ pre' = Snapshot
        /\ call' = [op |-> "add_transition", arg |-> <<o, c, t>>, ret |-> None]
        /\ UNCHANGED <<states, current_state, last_transition, app, stvars>>
        /\ SMUnchanged

SMTransition ==
    \E c \in UserCommands :
        /\ HistoryRoom
        /\ transition(c)
        /\ pre' = Snapshot
        /\ call' = [op |-> "transition", arg |-> c, ret |-> transition_returns(c)]
        /\ UNCHANGED <<transitions, states, app, nbuild>>
        /\ SMUnchanged

SMChangeState ==
    \E n \in StateNames \cup {"ready"} :
        /\ HistoryRoom
        /\ change_state(n)
        /\ pre' = Snapshot
        /\ call' = [op |-> "change_state", arg |-> n, ret |-> None]
        /\ UNCHANGED <<transitions, states, app, nbuild>>
        /\ SMUnchanged

NextSM ==
    \/ SMAddState
    \/ SMAddTransition
    \/ SMTransition
    \/ SMChangeState

SpecSM == InitSM /\ [][NextSM]_vars

\* =============================================================== SpecStore
\* A StorageManager, called directly by embedding code or through the
\* session handlers of the GenericCLI that owns it, next to a machine over the
\* graph of DemoCLI whose state changes persist into the active session.

\* session names: "" is the empty name, which do_new_session and
\* do_load_session turn away and StorageManager itself accepts
SessionNames == {"", "n1"}

\* the keys and values embedding code stores with update_data
DataKeys == {"k"}
DataValues == {"v", "(1, 2)"}

\* Python's `not v` for a value that is None or a str
Falsy(v) == v \in {None, ""}

\* the graph DemoCLI.__init__ builds
DemoGraph ==
    [o \in StateObjs |->
        IF o = "initial_state"
        THEN ("add_author" :> "authors_added_state")
        ELSE IF o = "authors_added_state"
        THEN ("add_author" :> "authors_added_state") @@
             ("list_authors" :> "authors_added_state")
        ELSE EmptyDict]

\* (variant: an existence test that never finds the file)
session_exists_never(name) ==
    FALSE

\* os.path.exists(session_path)
session_exists(name) ==
    name \in DOMAIN files

\* StorageManager.create_session(name) raises ValueError
create_session_raises(name) ==
    session_exists(name)

\* (variant: the file is written but the session is not made current)
create_session_not_current(name) ==
    IF session_exists(name)
    THEN UNCHANGED <<files, current_session, shared_storage>>
    ELSE /\ files' = save_to_file(files, name, NewSharedStorage)
         /\ shared_storage' = NewSharedStorage
         /\ UNCHANGED current_session

\* StorageManager.create_session(name)
create_session(name) ==
    IF session_exists(name)
    THEN UNCHANGED <<files, current_session, shared_storage>>
    ELSE /\ files' = save_to_file(files, name, NewSharedStorage)
         /\ current_session' = name
         /\ shared_storage' = NewSharedStorage

\* StorageManager.load_session(name) raises ValueError
load_session_raises(name) ==
    IF session_exists(name) THEN from_json_raises(files[name]) ELSE TRUE

\* (variant: the name is switched and the storage object of the session left
\* behind is kept)
load_session_keeps_storage(name) ==
    IF ~session_exists(name)
    THEN UNCHANGED <<files, current_session, shared_storage>>
    ELSE /\ current_session' = name
         /\ UNCHANGED <<files, shared_storage>>

\* StorageManager.load_session(name): the name is assigned before the file is
\* read, so a file that cannot be read leaves the name switched
load_session(name) ==
    IF ~session_exists(name)
    THEN UNCHANGED <<files, current_session, shared_storage>>
    ELSE /\ current_session' = name
         /\ shared_storage' = IF from_json_raises(files[name])
                              THEN shared_storage
                              ELSE from_json(files[name])
         /\ UNCHANGED files

\* (variant: a guard that lets every call through)
has_storage_always ==
    TRUE

\* the guard `if not self.shared_storage` of the session-scoped operations
has_storage ==
    shared_storage # NoStorage

\* StorageManager.save_current_session raises ValueError
save_current_session_raises ==
    Falsy(current_session)

\* StorageManager.save_current_session finds a session name but no storage
\* object (self.shared_storage is None): AttributeError
save_current_session_no_storage(s) ==
    ~Falsy(current_session) /\ s = NoStorage

\* StorageManager.save_current_session, writing storage object s
save_current_session(s) ==
    IF Falsy(current_session) \/ s = NoStorage
    THEN UNCHANGED files
    ELSE files' = save_to_file(files, current_session, s)

\* the error of the session-scoped operations
NoActiveSession == "ValueError: No active session"

\* room left in the history of the storage object (the model's bound)
StoreRoom ==
    Len(shared_storage.command_history) < MaxHistory

\* the session directory when the StorageManager is constructed: empty, or
\* holding the file an earlier run left for session n1
EarlierRun ==
    SharedStorage_add_command_result(
        SharedStorage_update_data(NewSharedStorage, "k", "v"),
        "update_data: k", [value |-> "v"])

InitStore ==
    /\ transitions = DemoGraph
    /\ states = ("initial" :> "initial_state") @@ ("authors_added" :> "authors_added_state")
    /\ current_state = "initial_state"
    /\ last_transition = None
    /\ app \in BOOLEAN
    /\ files \in {EmptyDict, save_to_file(EmptyDict, "n1", EarlierRun),
                 ("n1" :> Unreadable)}
    /\ current_session = None
    /\ shared_storage = NoStorage
    /\ current_storage = None
    /\ has_do = {}
    /\ available_commands = {}
    /\ lastcmd = <<>>
    /\ fields = EmptyDict
    /\ dispatched = <<>>
    /\ pc = "api"
    /\ mode = "api"
    /\ input = <<>>
    /\ line = <<>>
    /\ result = None
    /\ stop = None
    /\ nbuild = 0
    /\ pre = NoSnapshot
    /\ handler_ran = FALSE
    /\ returned_in = NoMachine
    /\ raised = None
    /\ moved = FALSE
    /\ notified = FALSE
    /\ output = None
    /\ call = [op |-> "__init__", arg |-> None, ret |-> None]

StoreUnchanged ==
    UNCHANGED <<smvars, clivars, pc, mode, input, line, result, stop, nbuild,
                handler_ran, returned_in, raised, moved, notified>>

\* GenericCLI.do_new_session(a)
DoNewSession ==
    \E a \in SessionNames :
        /\ pre' = Snapshot
        /\ call' = [op |-> "do_new_session", arg |-> a, ret |-> None]
        /\ IF a = ""
           THEN /\ output' = "Please provide a name for the new session."
                /\ UNCHANGED stvars
           ELSE /\ create_session(a)
                /\ IF create_session_raises(a)
                   THEN /\ output' = "Error: already exists"
                        /\ UNCHANGED current_storage
                   ELSE /\ output' = "created and activated"
                        /\ current_storage' = "shared_storage"
        /\ StoreUnchanged

\* GenericCLI.do_load_session(a)
DoLoadSession ==
    \E a \in SessionNames :
        /\ pre' = Snapshot
        /\ call' = [op |-> "do_load_session", arg |-> a, ret |-> None]
        /\ IF a = ""
           THEN /\ output' = "Please provide the name of the session to load."
                /\ UNCHANGED stvars
           ELSE /\ load_session(a)
                /\ IF load_session_raises(a)
                   THEN /\ output' = IF session_exists(a)
                                     THEN "Error: Expecting value"
                                     ELSE "Error: does not exist"
                        /\ UNCHANGED current_storage
                   ELSE /\ output' = "loaded and activated"
                        /\ current_storage' = "shared_storage"
        /\ StoreUnchanged

\* StorageManager.create_session(n) called by embedding code that keeps no
\* storage object in a CLI
CreateSession ==
    \E n \in SessionNames :
        /\ current_storage = None
        /\ pre' = Snapshot
        /\ create_session(n)
        /\ call' = [op |-> "create_session", arg |-> n,
                    ret |-> IF create_session_raises(n)
                            THEN "ValueError: already exists" ELSE "storage"]
        /\ UNCHANGED <<current_storage, output>>
        /\ StoreUnchanged

\* StorageManager.load_session(n) called by such embedding code
LoadSession ==
    \E n \in SessionNames :
        /\ current_storage = None
        /\ pre' = Snapshot
        /\ load_session(n)
        /\ call' = [op |-> "load_session", arg |-> n,
                    ret |-> IF ~session_exists(n) THEN "ValueError: does not exist"
                            ELSE IF load_session_raises(n) THEN "JSONDecodeError"
                            ELSE "storage"]
        /\ UNCHANGED <<current_storage, output>>
        /\ StoreUnchanged

\* StorageManager.save_current_session()
SaveCurrentSession ==
    /\ pre' = Snapshot
    /\ save_current_session(shared_storage)
    /\ call' = [op |-> "save_current_session", arg |-> None,
                ret |-> IF save_current_session_raises THEN NoActiveSession
                        ELSE IF save_current_session_no_storage(shared_storage)
                        THEN "AttributeError"
                        ELSE None]
    /\ UNCHANGED <<current_session, shared_storage, current_storage, output>>
    /\ StoreUnchanged

\* StorageManager.update_data(key, value)
UpdateData ==
    \E key \in DataKeys, value \in DataValues :
        /\ StoreRoom
        /\ pre' = Snapshot
        /\ IF ~has_storage
           THEN /\ call' = [op |-> "update_data", arg |-> <<key, value>>,
                            ret |-> NoActiveSession]
                /\ UNCHANGED stvars
           ELSE LET s1 == SharedStorage_update_data(shared_storage, key, value)
                    s2 == SharedStorage_add_command_result(
                              s1, "update_data: " \o key, [value |-> value])
                IN  /\ shared_storage' = s2
                    /\ save_current_session(s2)
                    /\ call' = [op |-> "update_data", arg |-> <<key, value>>,
                                ret |-> IF save_current_session_raises
                                        THEN NoActiveSession ELSE None]
                    /\ UNCHANGED <<current_session, current_storage>>
        /\ UNCHANGED output
        /\ StoreUnchanged

\* StorageManager.get_data(key)
GetData ==
    \E key \in DataKeys \cup {"current_state"} :
        /\ pre' = Snapshot
        /\ call' = [op |-> "get_data", arg |-> key,
                    ret |-> IF ~has_storage THEN NoActiveSession
                            ELSE IF key \in DOMAIN shared_storage.data
                            THEN shared_storage.data[key] ELSE None]
        /\ UNCHANGED <<stvars, output>>
        /\ StoreUnchanged

\* StorageManager.add_command_result(command, result)
AddCommandResult ==
    \E command \in {"note"}, res \in {[output |-> "ok"]} :
        /\ StoreRoom
        /\ pre' = Snapshot
        /\ IF ~has_storage
           THEN /\ call' = [op |-> "add_command_result", arg |-> command,
                            ret |-> NoActiveSession]
                /\ UNCHANGED stvars
           ELSE LET s2 == SharedStorage_add_command_result(shared_storage, command, res)
                IN  /\ shared_storage' = s2
                    /\ save_current_session(s2)
                    /\ call' = [op |-> "add_command_result", arg |-> command,
                                ret |-> IF save_current_session_raises
                                        THEN NoActiveSession ELSE None]
                    /\ UNCHANGED <<current_session, current_storage>>
        /\ UNCHANGED output
        /\ StoreUnchanged

\* StorageManager.get_command_history()
GetCommandHistory ==
    /\ pre' = Snapshot
    /\ call' = [op |-> "get_command_history", arg |-> None,
                ret |-> IF ~has_storage THEN <<NoActiveSession>>
                        ELSE shared_storage.command_history]
    /\ UNCHANGED <<stvars, output>>
    /\ StoreUnchanged

\* StateMachine.transition in the machine next to the store
StoreTransition ==
    SMTransition /\ UNCHANGED output

\* (variant: a failed save that undoes the state change and the session update)
StoreTransitionSaveFails_rolled_back ==
    \E c \in UserCommands :
        /\ app
        /\ current_storage # None
        /\ c \in Keys(current_state)
        /\ HistoryRoom
        /\ pre' = Snapshot
        /\ call' = [op |-> "transition", arg |-> c, exc |-> "OSError"]
        /\ UNCHANGED <<smvars, stvars, output>>
        /\ StoreUnchanged

\* StateMachine.transition(c) in which on_state_changed's save fails: open()
\* in SharedStorage.save_to_file raises OSError, which leaves transition after
\* the state change and the session update were made.  The file keeps the
\* content it had.
StoreTransitionSaveFails ==
    \E c \in UserCommands :
        /\ app
        /\ current_storage # None
        /\ c \in Keys(current_state)
        /\ HistoryRoom
        /\ pre' = Snapshot
        /\ call' = [op |-> "transition", arg |-> c, exc |-> "OSError"]
        /\ current_state' = transitions[current_state][c]
        /\ last_transition' = c
        /\ shared_storage' =
               SharedStorage_add_command_result(
                   SharedStorage_update_data(shared_storage, "current_state",
                       StateName(transitions[current_state][c])),
                   c, [state |-> StateName(transitions[current_state][c])])
        /\ UNCHANGED <<transitions, states, app, files, current_session,
                       current_storage, output>>
        /\ UNCHANGED <<clivars, pc, mode, input, line, result, stop, nbuild,
                       handler_ran, returned_in, raised, moved, notified>>

NextStore ==
    \/ DoNewSession
    \/ DoLoadSession
    \/ CreateSession
    \/ LoadSession
    \/ SaveCurrentSession
    \/ UpdateData
    \/ GetData
    \/ AddCommandResult
    \/ GetCommandHistory
    \/ StoreTransition
    \/ StoreTransitionSaveFails

SpecStore == InitStore /\ [][NextStore]_vars

\* ==================================================================== Spec
\* -------------------------------------------------------------- input lines
\* A line is the sequence of its words.  <<>> is the empty (or blank) line,
\* "!ls" begins with '!' (parseline gives no command: GenericCLI has no
\* do_shell), "#" begins with a character outside identchars (parseline gives
\* the command ''), analyze_authors names no edge of the graphs below.
Lines ==
    {<<>>, <<"!ls">>, <<"#">>,
     <<"add_author">>, <<"list_authors">>, <<"analyze_authors">>,
     <<"help">>, <<"exit">>,
     <<"new_session", "n1">>, <<"load_session", "n1">>, <<"list_sessions">>}

\* cmd.Cmd.parseline: (cmd, arg) of a stripped line
parseline(l) ==
    IF l = <<>> THEN [cmd |-> None, arg |-> None]
    ELSE IF l[1] = "!ls" THEN [cmd |-> None, arg |-> None]
    ELSE IF l[1] = "#" THEN [cmd |-> "", arg |-> "#"]
    ELSE [cmd |-> l[1], arg |-> IF Len(l) > 1 THEN l[2] ELSE ""]

\* the handlers GenericCLI itself defines: do_help, do_new_session,
\* do_load_session, do_list_sessions (there is no do_exit)
BaseHandlers == {"help", "new_session", "load_session", "list_sessions"}

\* the do_<name> methods of the CLI classes modelled: GenericCLI's own plus
\* do_add_author and do_list_authors (DemoCLI, which defines no do_exit), or
\* plus do_add_author and a do_exit (a CLI that leaves list_authors unhandled)
HandlerSets ==
    {BaseHandlers \cup {"add_author", "list_authors"},
     BaseHandlers \cup {"add_author", "exit"}}

\* the description a @command decorator gives the command
Description(n) ==
    IF n = "new_session" THEN "Create a new working session"
    ELSE IF n = "load_session" THEN "Load an existing working session"
    ELSE IF n = "list_sessions" THEN "List all available sessions"
    ELSE "description"

\* the do_ methods that carry @command: GenericCLI's three session handlers
\* (do_help carries none); DemoCLI decorates neither of its handlers, the CLI
\* with a do_exit decorates both of its own
Decorated ==
    {"new_session", "load_session", "list_sessions"} \cup
    (IF "exit" \in has_do THEN {"add_author", "exit"} ELSE {})

\* (variant: first registration of a name is kept)
register_commands_first_wins(decls) ==
    LET RECURSIVE reg(_, _)
        reg(i, commands) ==
            IF i > Len(decls) THEN commands
            ELSE reg(i + 1, commands @@ (decls[i].name :> decls[i].description))
    IN  reg(1, EmptyDict)

\* GenericCLI._register_commands over the decorated attributes in dir() order:
\* commands[attr.command.name] = attr.command for each
register_commands(decls) ==
    LET RECURSIVE reg(_, _)
        reg(i, commands) ==
            IF i > Len(decls) THEN commands
            ELSE reg(i + 1, (decls[i].name :> decls[i].description) @@ commands)
    IN  reg(1, EmptyDict)

\* self.commands of the CLI, name -> description
commands ==
    [n \in Decorated |-> Description(n)]

\* the rows GenericCLI.do_help(a) prints, command name -> description
do_help(a) ==
    IF a # ""
    THEN IF a \in DOMAIN commands THEN (a :> commands[a]) ELSE EmptyDict
    ELSE [n \in DOMAIN commands \cap available_commands |-> commands[n]]

\* the values a handler written by a concrete CLI returns
HandlerResults == {None, "CONTINUE", "EXIT", "CANCEL_TRANSITION", "True", "False"}

\* the dicts a State object may hold over the two DemoCLI states
Dicts ==
    UNION {[D -> {"initial_state", "authors_added_state"}] : D \in SUBSET UserCommands}

\* the transition graphs a GenericCLI is constructed over
Graphs ==
    {[o \in StateObjs |->
        IF o = "initial_state" THEN d1
        ELSE IF o = "authors_added_state" THEN d2 ELSE EmptyDict] :
     d1 \in Dicts, d2 \in Dicts}

\* the observations of a dispatch cycle, before it begins
ObsReset ==
    /\ pre' = NoSnapshot
    /\ handler_ran' = FALSE
    /\ returned_in' = NoMachine
    /\ raised' = None
    /\ moved' = FALSE
    /\ notified' = FALSE
    /\ output' = None

\* the session an earlier run left in the session directory: its machine had
\* persistence on and was in authors_added when it last saved
RecordedSession ==
    SharedStorage_add_command_result(
        SharedStorage_update_data(NewSharedStorage, "current_state", "authors_added"),
        "add_author", [state |-> "authors_added"])

\* StateMachine.__init__ and add_state as DemoCLI.__init__ calls them, State
\* objects with edges from Graphs, then GenericCLI.__init__
Init ==
    /\ transitions \in Graphs
    /\ states = ("initial" :> "initial_state") @@ ("authors_added" :> "authors_added_state")
    /\ current_state = "initial_state"
    /\ last_transition = None
    /\ app \in BOOLEAN
    /\ files \in {EmptyDict, save_to_file(EmptyDict, "n1", RecordedSession)}
    /\ current_session = None
    /\ shared_storage = NoStorage
    /\ current_storage = None
    /\ has_do \in HandlerSets
    /\ available_commands = DOMAIN transitions["initial_state"] \cup always_available
    /\ lastcmd = <<>>
    /\ fields = EmptyDict
    /\ dispatched = <<>>
    /\ pc = "idle"
    /\ mode = "direct"
    /\ input = <<>>
    /\ line = <<>>
    /\ result = None
    /\ stop = None
    /\ nbuild = 0
    /\ pre = NoSnapshot
    /\ handler_ran = FALSE
    /\ returned_in = NoMachine
    /\ raised = None
    /\ moved = FALSE
    /\ notified = FALSE
    /\ output = None
    /\ call = NoCall

\* onecmd's locals cmd and arg, as parseline gives them for the line dispatched
cmd == parseline(line).cmd
arg == parseline(line).arg

\* Python truthiness of the values onecmd returns
Truthy(v) == v = "True"

\* what a handler of a concrete CLI does to the machine before it returns:
\* nothing, or a call of self.state_machine.transition (as CounterCLI.do_decrement)
Effects ==
    {<<"none">>} \cup {<<"transition", c>> : c \in UserCommands}

ApplyEffect(e) ==
    IF e[1] = "transition"
    THEN HistoryRoom /\ transition(e[2])
    ELSE UNCHANGED <<current_state, last_transition, stvars>>

\* ---------------------------------------------------------------- callers
\* the embedding code (a test, demo_uccli.py) calls cli.onecmd(l)
CallOnecmd ==
    \E l \in Lines :
        /\ pc = "idle"
        /\ HistoryRoom
        /\ pc' = "onecmd"
        /\ input' = l
        /\ line' = l
        /\ result' = None
        /\ stop' = None
        /\ pre' = Snapshot
        /\ handler_ran' = FALSE
        /\ returned_in' = NoMachine
        /\ raised' = None
        /\ moved' = FALSE
        /\ notified' = FALSE
        /\ output' = None
        /\ UNCHANGED <<smvars, stvars, clivars, mode, nbuild, call>>

\* the embedding code calls cli.cmdloop(): stop = None, enter the while loop
StartCmdloop ==
    /\ pc = "idle"
    /\ pc' = "prompt"
    /\ mode' = "cmdloop"
    /\ stop' = None
    /\ UNCHANGED <<smvars, stvars, clivars, input, line, result, nbuild, obsvars>>

\* ---------------------------------------------------------------- cmdloop
\* one pass of the while loop up to the call of onecmd: refresh_commands,
\* session.prompt returns l, precmd(l).  precmd calls
\* StorageManager.save_current_session with one argument too many whenever
\* current_storage is set: a TypeError that cmdloop does not catch.
Prompt ==
    \E l \in Lines :
        /\ pc = "prompt"
        /\ HistoryRoom
        /\ available_commands' = get_available_commands
        /\ input' = l
        /\ line' = l
        /\ result' = None
        /\ stop' = None
        /\ pre' = Snapshot
        /\ handler_ran' = FALSE
        /\ returned_in' = NoMachine
        /\ moved' = FALSE
        /\ notified' = FALSE
        /\ output' = None
        /\ IF current_storage # None
           THEN /\ raised' = "precmd:TypeError"
                /\ pc' = "crashed"
           ELSE /\ raised' = None
                /\ pc' = "onecmd"
        /\ UNCHANGED <<smvars, stvars, has_do, lastcmd, fields, dispatched, mode, nbuild, call>>

\* KeyboardInterrupt while session.prompt waits: print "^C", next pass
PromptInterrupt ==
    /\ pc = "prompt"
    /\ available_commands' = get_available_commands
    /\ output' = "^C"
    /\ UNCHANGED <<smvars, stvars, has_do, lastcmd, fields, dispatched, ctlvars,
                   pre, handler_ran, returned_in, raised, moved, notified, call>>

\* EOFError while session.prompt waits: print "^D", break, postloop
PromptEOF ==
    /\ pc = "prompt"
    /\ available_commands' = get_available_commands
    /\ output' = "^D"
    /\ pc' = "done"
    /\ UNCHANGED <<smvars, stvars, has_do, lastcmd, fields, dispatched, mode, input, line,
                   result, stop,
                   nbuild, pre, handler_ran, returned_in, raised, moved, notified, call>>

\* ----------------------------------------------------------------- onecmd
\* an exception leaves onecmd: cmdloop catches KeyboardInterrupt (and EOFError)
\* and nothing else; a direct caller gets every exception
Leave(exc) ==
    /\ raised' = exc
    /\ IF mode = "cmdloop" /\ exc = "handler:KeyboardInterrupt"
       THEN pc' = "prompt" /\ output' = "^C"
       ELSE pc' = "crashed" /\ UNCHANGED output

\* cmd.Cmd.default(line): "*** Unknown syntax", returns None
Default ==
    /\ output' = "unknown syntax"
    /\ stop' = None
    /\ pc' = "return"

\* onecmd up to the try block: parseline, emptyline / default, lastcmd, the
\* check against get_available_commands
ParseLine ==
    /\ pc = "onecmd"
    /\ IF line = <<>>
       THEN \* cmd.Cmd.emptyline: onecmd(self.lastcmd) when lastcmd is not empty
            IF lastcmd # <<>>
            THEN /\ line' = lastcmd
                 /\ UNCHANGED <<pc, stop, output, lastcmd>>
            ELSE /\ stop' = None
                 /\ pc' = "return"
                 /\ UNCHANGED <<line, output, lastcmd>>
       ELSE IF cmd = None
       THEN Default /\ UNCHANGED <<line, lastcmd>>
       ELSE /\ lastcmd' = line
            /\ UNCHANGED line
            /\ IF cmd = ""
               THEN Default
               ELSE IF cmd \notin get_available_commands
               THEN /\ output' = "not available in current state"
                    /\ stop' = "False"
                    /\ pc' = "return"
               ELSE /\ pc' = "execute"
                    /\ UNCHANGED <<stop, output>>
    /\ UNCHANGED <<smvars, stvars, has_do, available_commands, fields, dispatched, mode,
                   input, result,
                   nbuild, pre, handler_ran, returned_in, raised, moved, notified, call>>

\* (variant: the order of src/concepts/generalized.py, the transition made
\* before the handler is looked up)
ExecNoHandler_transition_first ==
    /\ pc = "execute"
    /\ cmd \notin has_do
    /\ IF cmd \in Keys(current_state)
       THEN /\ HistoryRoom
            /\ transition(cmd)
            /\ moved' = TRUE
       ELSE UNCHANGED <<current_state, last_transition, stvars, moved>>
    /\ Default
    /\ UNCHANGED <<transitions, states, app, clivars, mode, input, line, result, nbuild,
                   pre, handler_ran, returned_in, raised, notified, call>>

\* getattr(self, 'do_' + cmd) finds no method: AttributeError, default(line)
ExecNoHandler ==
    /\ pc = "execute"
    /\ cmd \notin has_do
    /\ Default
    /\ UNCHANGED <<smvars, stvars, clivars, mode, input, line, result, nbuild,
                   pre, handler_ran, returned_in, raised, moved, notified, call>>

\* GenericCLI.do_help
ExecHelp ==
    /\ pc = "execute"
    /\ cmd = "help"
    /\ cmd \in has_do
    /\ handler_ran' = TRUE
    /\ output' = "help"
    /\ call' = [op |-> "do_help", arg |-> arg, ret |-> do_help(arg)]
    /\ result' = None
    /\ returned_in' = Machine
    /\ pc' = "transition"
    /\ UNCHANGED <<smvars, stvars, clivars, mode, input, line, stop, nbuild,
                   pre, raised, moved, notified>>

\* GenericCLI.do_new_session with StorageManager.create_session
ExecNewSession ==
    /\ pc = "execute"
    /\ cmd = "new_session"
    /\ cmd \in has_do
    /\ handler_ran' = TRUE
    /\ result' = None
    /\ returned_in' = Machine
    /\ pc' = "transition"
    /\ IF arg = ""
       THEN /\ output' = "Please provide a name for the new session."
            /\ UNCHANGED stvars
       ELSE IF arg \in DOMAIN files
       THEN /\ output' = "Error: already exists"
            /\ UNCHANGED stvars
       ELSE /\ files' = save_to_file(files, arg, NewSharedStorage)
            /\ current_session' = arg
            /\ shared_storage' = NewSharedStorage
            /\ current_storage' = "shared_storage"
            /\ output' = "created and activated"
    /\ UNCHANGED <<smvars, clivars, mode, input, line, stop, nbuild,
                   pre, raised, moved, notified, call>>

\* (variant: a load that puts the machine in the state the session records)
ExecLoadSession_restores_state ==
    /\ pc = "execute"
    /\ cmd = "load_session"
    /\ cmd \in has_do
    /\ handler_ran' = TRUE
    /\ result' = None
    /\ pc' = "transition"
    /\ IF arg = ""
       THEN /\ output' = "Please provide the name of the session to load."
            /\ UNCHANGED <<stvars, current_state>>
       ELSE IF arg \notin DOMAIN files
       THEN /\ output' = "Error: does not exist"
            /\ UNCHANGED <<stvars, current_state>>
       ELSE IF from_json_raises(files[arg])
       THEN /\ current_session' = arg
            /\ output' = "Error: Expecting value"
            /\ UNCHANGED <<files, shared_storage, current_storage, current_state>>
       ELSE /\ current_session' = arg
            /\ shared_storage' = from_json(files[arg])
            /\ current_storage' = "shared_storage"
            /\ output' = "loaded and activated"
            /\ current_state' =
                   IF "current_state" \in DOMAIN files[arg].data
                      /\ files[arg].data["current_state"] \in DOMAIN states
                   THEN states[files[arg].data["current_state"]]
                   ELSE current_state
            /\ UNCHANGED files
    /\ returned_in' = [current_state |-> current_state', last_transition |-> last_transition]
    /\ UNCHANGED <<transitions, states, last_transition, app, clivars, mode, input, line,
                   stop, nbuild, pre, raised, moved, notified, call>>

\* GenericCLI.do_load_session with StorageManager.load_session
ExecLoadSession ==
    /\ pc = "execute"
    /\ cmd = "load_session"
    /\ cmd \in has_do
    /\ handler_ran' = TRUE
    /\ result' = None
    /\ returned_in' = Machine
    /\ pc' = "transition"
    /\ IF arg = ""
       THEN /\ output' = "Please provide the name of the session to load."
            /\ UNCHANGED stvars
       ELSE IF arg \notin DOMAIN files
       THEN /\ output' = "Error: does not exist"
            /\ UNCHANGED stvars
       ELSE IF from_json_raises(files[arg])
       THEN /\ current_session' = arg
            /\ output' = "Error: Expecting value"
            /\ UNCHANGED <<files, shared_storage, current_storage>>
       ELSE /\ current_session' = arg
            /\ shared_storage' = from_json(files[arg])
            /\ current_storage' = "shared_storage"
            /\ output' = "loaded and activated"
            /\ UNCHANGED files
    /\ UNCHANGED <<smvars, clivars, mode, input, line, stop, nbuild,
                   pre, raised, moved, notified, call>>

\* GenericCLI.do_list_sessions with StorageManager.list_sessions
ExecListSessions ==
    /\ pc = "execute"
    /\ cmd = "list_sessions"
    /\ cmd \in has_do
    /\ handler_ran' = TRUE
    /\ result' = None
    /\ output' = IF DOMAIN files # {} THEN "Available sessions" ELSE "No sessions found."
    /\ returned_in' = Machine
    /\ pc' = "transition"
    /\ UNCHANGED <<smvars, stvars, clivars, mode, input, line, stop, nbuild,
                   pre, raised, moved, notified, call>>

\* (variant: the order of src/concepts/generalized.py, transition before handler)
ExecUser_transition_first ==
    \E r \in HandlerResults :
        /\ pc = "execute"
        /\ cmd \in has_do \ BaseHandlers
        /\ handler_ran' = TRUE
        /\ IF cmd \in Keys(current_state)
           THEN /\ HistoryRoom
                /\ transition(cmd)
                /\ moved' = TRUE
           ELSE UNCHANGED <<current_state, last_transition, stvars, moved>>
        /\ returned_in' = Machine'
        /\ result' = r
        /\ pc' = "transition"
        /\ UNCHANGED <<transitions, states, app, clivars, mode, input, line, stop, nbuild,
                       pre, raised, notified, output, call>>

\* a handler of the concrete CLI runs and returns r
ExecUser ==
    \E e \in Effects, r \in HandlerResults :
        /\ pc = "execute"
        /\ cmd \in has_do \ BaseHandlers
        /\ handler_ran' = TRUE
        /\ ApplyEffect(e)
        /\ returned_in' = Machine'
        /\ result' = r
        /\ pc' = "transition"
        /\ UNCHANGED <<transitions, states, app, clivars, mode, input, line, stop, nbuild,
                       pre, raised, moved, notified, output, call>>

\* a handler of the concrete CLI raises; only AttributeError is caught by
\* onecmd (and answered with default(line))
ExecUserRaises ==
    \E exc \in {"AttributeError", "Exception", "KeyboardInterrupt"} :
        /\ pc = "execute"
        /\ cmd \in has_do \ BaseHandlers
        /\ handler_ran' = TRUE
        /\ IF exc = "AttributeError"
           THEN /\ raised' = "handler:AttributeError"
                /\ Default
           ELSE /\ Leave("handler:" \o exc)
                /\ UNCHANGED stop
        /\ UNCHANGED <<smvars, stvars, clivars, mode, input, line, result, nbuild,
                       pre, returned_in, moved, notified, call>>

\* onecmd's test of the handler's result against the cancel sentinel
is_cancel_wrong_sentinel(r) ==
    r = "CANCEL"

is_cancel(r) ==
    r = "CANCEL_TRANSITION"

\* onecmd's return value after a handler returned r: result == "EXIT".
\* (The variant returns the handler's own value, as the GenericCLI of
\* src/concepts/generalized.py does.)
onecmd_returns_result(r) ==
    IF r \in {"EXIT", "CONTINUE", "True"} THEN "True" ELSE "False"

onecmd_returns(r) ==
    IF r = "EXIT" THEN "True" ELSE "False"

\* (variant: the state the command was validated in)
lookup_state_at_dispatch ==
    pre.current_state

\* self.state_machine.current_state, read when onecmd reaches its transition test
lookup_state ==
    current_state

\* (variant: following an edge removes it from the state it left)
TransitionStep_consumes_edge ==
    /\ pc = "transition"
    /\ IF is_cancel(result)
       THEN /\ stop' = "False"
            /\ pc' = "return"
            /\ UNCHANGED <<transitions, current_state, last_transition, stvars, moved>>
       ELSE /\ pc' = "notify"
            /\ UNCHANGED stop
            /\ IF cmd \in Keys(current_state)
               THEN /\ HistoryRoom
                    /\ transition(cmd)
                    /\ moved' = TRUE
                    /\ transitions' =
                           [transitions EXCEPT ![current_state] =
                               [k \in DOMAIN @ \ {cmd} |-> @[k]]]
               ELSE UNCHANGED <<transitions, current_state, last_transition, stvars, moved>>
    /\ UNCHANGED <<states, app, clivars, mode, input, line, result, nbuild,
                   pre, handler_ran, returned_in, raised, notified, output, call>>

\* onecmd after the handler returned: the cancel check, then the transition
TransitionStep ==
    /\ pc = "transition"
    /\ IF is_cancel(result)
       THEN /\ stop' = "False"
            /\ pc' = "return"
            /\ UNCHANGED <<current_state, last_transition, stvars, moved>>
       ELSE /\ pc' = "notify"
            /\ UNCHANGED stop
            /\ IF cmd \in Keys(lookup_state)
               THEN /\ HistoryRoom
                    /\ transition(cmd)
                    /\ moved' = TRUE
               ELSE UNCHANGED <<current_state, last_transition, stvars, moved>>
    /\ UNCHANGED <<transitions, states, app, clivars, mode, input, line, result, nbuild,
                   pre, handler_ran, returned_in, raised, notified, output, call>>

\* visualize_state_machine (the external renderer), update_agent_clibase, and
\* the return of result == "EXIT"
Notify ==
    /\ pc = "notify"
    /\ notified' = TRUE
    /\ stop' = onecmd_returns(result)
    /\ pc' = "return"
    /\ UNCHANGED <<smvars, stvars, clivars, mode, input, line, result, nbuild,
                   pre, handler_ran, returned_in, raised, moved, output, call>>

\* agent_communicator.send_update raises
NotifyRaises ==
    \E exc \in {"AttributeError", "Exception"} :
        /\ pc = "notify"
        /\ IF exc = "AttributeError"
           THEN /\ raised' = "observer:AttributeError"
                /\ Default
           ELSE /\ Leave("observer:" \o exc)
                /\ UNCHANGED stop
        /\ UNCHANGED <<smvars, stvars, clivars, mode, input, line, result, nbuild,
                       pre, handler_ran, returned_in, moved, notified, call>>

\* onecmd has returned stop: a direct caller goes on; cmdloop runs postcmd and
\* tests `while not stop`
Return ==
    /\ pc = "return"
    /\ pc' = IF mode = "direct" THEN "idle"
             ELSE IF Truthy(stop) THEN "done" ELSE "prompt"
    /\ input' = <<>>
    /\ line' = <<>>
    /\ result' = None
    /\ stop' = IF mode = "cmdloop" /\ Truthy(stop) THEN stop ELSE None
    /\ ObsReset
    /\ call' = NoCall
    /\ UNCHANGED <<smvars, stvars, clivars, mode, nbuild>>

Next ==
    \/ CallOnecmd
    \/ StartCmdloop
    \/ Prompt
    \/ PromptInterrupt
    \/ PromptEOF
    \/ ParseLine
    \/ ExecNoHandler
    \/ ExecHelp
    \/ ExecNewSession
    \/ ExecLoadSession
    \/ ExecListSessions
    \/ ExecUser
    \/ ExecUserRaises
    \/ TransitionStep
    \/ Notify
    \/ NotifyRaises
    \/ Return

Spec == Init /\ [][Next]_vars

\* ============================================================== SpecConcept
\* The CLIs of the test suite, CounterCLI (src/tests/test_statemachine.py) and
\* AuthorListCLI (src/concepts/generalized.py), over the GenericCLI of
\* src/concepts/generalized.py, whose onecmd applies the transition before it
\* runs the handler.  The embedding code calls onecmd line after line.

\* lines a test dispatches before it looks at the CLI
MaxCommands == 4

\* CounterCLI.__init__: the State objects and their edges
CounterStates == {"zero_state", "positive_state"}

CounterGraph ==
    [o \in CounterStates |->
        IF o = "zero_state"
        THEN ("increment" :> "positive_state") @@ ("show" :> "zero_state")
        ELSE ("increment" :> "positive_state") @@
             ("decrement" :> "positive_state") @@
             ("decrement_to_zero" :> "zero_state") @@
             ("show" :> "positive_state")]

\* the do_<name> methods of CounterCLI (do_help is cmd.Cmd's)
CounterHandlers == {"increment", "decrement", "show", "help"}

\* AuthorListCLI.__init__: the State objects and their edges
AuthorListStates ==
    {"initial_state", "authors_added_state", "model_selected_state", "ready_state"}

\* (variant: add_author in model_selected leading to authors_added)
AuthorListGraph_add_author_forgets_model ==
    [o \in AuthorListStates |->
        LET loops == [c \in {"set_output_file", "list_authors", "show_settings"} |-> o]
        IN  IF o = "initial_state"
            THEN loops @@ ("add_author" :> "authors_added_state") @@
                 ("select_model" :> "model_selected_state")
            ELSE IF o = "authors_added_state"
            THEN loops @@ ("add_author" :> "authors_added_state") @@
                 ("select_model" :> "ready_state")
            ELSE IF o = "model_selected_state"
            THEN loops @@ ("add_author" :> "authors_added_state") @@
                 ("select_model" :> "model_selected_state")
            ELSE loops @@ ("add_author" :> "ready_state") @@
                 ("select_model" :> "ready_state") @@
                 ("analyze_authors" :> "ready_state")]

AuthorListGraph ==
    [o \in AuthorListStates |->
        LET loops == [c \in {"set_output_file", "list_authors", "show_settings"} |-> o]
        IN  IF o = "initial_state"
            THEN loops @@ ("add_author" :> "authors_added_state") @@
                 ("select_model" :> "model_selected_state")
            ELSE IF o = "authors_added_state"
            THEN loops @@ ("add_author" :> "authors_added_state") @@
                 ("select_model" :> "ready_state")
            ELSE IF o = "model_selected_state"
            THEN loops @@ ("add_author" :> "ready_state") @@
                 ("select_model" :> "model_selected_state")
            ELSE loops @@ ("add_author" :> "ready_state") @@
                 ("select_model" :> "ready_state") @@
                 ("analyze_authors" :> "ready_state")]

\* the do_<name> methods of AuthorListCLI (do_help is cmd.Cmd's)
AuthorListHandlers ==
    {"set_output_file", "show_settings", "add_author", "list_authors",
     "select_model", "analyze_authors", "exit", "help"}

\* AuthorListCLI.available_models
available_models == {"model1", "model2", "model3"}

\* the lines dispatched to each CLI
ConceptLines ==
    IF has_do = CounterHandlers
    THEN {<<>>, <<"increment">>, <<"decrement">>, <<"show">>,
          <<"decrement_to_zero">>, <<"exit">>}
    ELSE {<<>>, <<"add_author", "a">>, <<"select_model", "model1">>,
          <<"select_model", "gpt">>, <<"list_authors">>, <<"show_settings">>,
          <<"set_output_file", "f">>, <<"analyze_authors">>, <<"exit">>}

\* GenericCLI.get_available_commands of generalized.py (CounterCLI's override
\* gives the same set)
generalized_get_available_commands ==
    Keys(current_state) \cup {"help", "exit"}

\* the state StateMachine.transition(c) of generalized.py leaves the machine
\* in when called in state s, and the last_transition it leaves
generalized_target(s, c) ==
    IF c \in DOMAIN transitions[s] THEN transitions[s][c] ELSE s

generalized_last(s, c, last) ==
    IF c \in DOMAIN transitions[s] THEN c ELSE last

\* the line onecmd ends up dispatching: emptyline() calls onecmd(self.lastcmd)
Effective(l) ==
    IF l = <<>> THEN lastcmd ELSE l

InitConcept ==
    /\ \/ /\ transitions = CounterGraph
          /\ states = ("zero" :> "zero_state") @@ ("positive" :> "positive_state")
          /\ current_state = "zero_state"
          /\ has_do = CounterHandlers
          /\ fields = [counter |-> 0]
       \/ /\ transitions = AuthorListGraph
          /\ states = ("initial" :> "initial_state") @@
                      ("authors_added" :> "authors_added_state") @@
                      ("model_selected" :> "model_selected_state") @@
                      ("ready" :> "ready_state")
          /\ current_state = "initial_state"
          /\ has_do = AuthorListHandlers
          /\ fields = [authors |-> <<>>, current_model |-> None, output_file |-> None]
    /\ last_transition = None
    /\ app = FALSE
    /\ files = EmptyDict
    /\ current_session = None
    /\ shared_storage = NoStorage
    /\ current_storage = None
    /\ available_commands = Keys(current_state) \cup {"help", "exit"}
    /\ lastcmd = <<>>
    /\ dispatched = <<>>
    /\ pc = "idle"
    /\ mode = "direct"
    /\ input = <<>>
    /\ line = <<>>
    /\ result = None
    /\ stop = None
    /\ nbuild = 0
    /\ pre = NoSnapshot
    /\ handler_ran = FALSE
    /\ returned_in = NoMachine
    /\ raised = None
    /\ moved = FALSE
    /\ notified = FALSE
    /\ output = None
    /\ call = NoCall

\* onecmd(l) of generalized.py for a line whose command is c, up to the
\* availability check: parseline, emptyline, lastcmd
ConceptEnter(l, c) ==
    /\ l \in ConceptLines
    /\ Len(dispatched) < MaxCommands
    /\ Effective(l) # <<>>
    /\ parseline(Effective(l)).cmd = c
    /\ dispatched' = Append(dispatched, Effective(l))
    /\ lastcmd' = Effective(l)
    /\ UNCHANGED <<transitions, states, app, stvars, has_do, available_commands,
                   ctlvars, pre, handler_ran, returned_in, raised, moved, notified, call>>

\* onecmd's own transition, made before the handler is looked up
ConceptTransition(c) ==
    /\ current_state' = generalized_target(current_state, c)
    /\ last_transition' = generalized_last(current_state, c, last_transition)

\* an empty line before any command: emptyline() finds no lastcmd
ConceptEmptyLine ==
    /\ <<>> \in ConceptLines
    /\ lastcmd = <<>>
    /\ UNCHANGED vars

\* a command outside get_available_commands()
ConceptRejected ==
    \E l \in ConceptLines, c \in AuthorListHandlers \cup CounterHandlers \cup {"decrement_to_zero"} :
        /\ ConceptEnter(l, c)
        /\ c \notin generalized_get_available_commands
        /\ output' = "not available in current state"
        /\ UNCHANGED <<current_state, last_transition, fields>>

\* an available command without a do_ method: the transition is made, then
\* getattr raises AttributeError and default(line) answers
ConceptNoHandler ==
    \E l \in ConceptLines, c \in {"decrement_to_zero", "exit"} :
        /\ ConceptEnter(l, c)
        /\ c \in generalized_get_available_commands
        /\ c \notin has_do
        /\ ConceptTransition(c)
        /\ output' = "unknown syntax"
        /\ UNCHANGED fields

\* CounterCLI.do_increment
DoIncrement ==
    \E l \in ConceptLines :
        /\ ConceptEnter(l, "increment")
        /\ "increment" \in generalized_get_available_commands
        /\ ConceptTransition("increment")
        /\ fields' = [fields EXCEPT !.counter = @ + 1]
        /\ output' = "Counter"

\* CounterCLI.do_decrement
DoDecrement ==
    \E l \in ConceptLines :
        /\ ConceptEnter(l, "decrement")
        /\ "decrement" \in generalized_get_available_commands
        /\ LET s1 == generalized_target(current_state, "decrement")
               l1 == generalized_last(current_state, "decrement", last_transition)
           IN  IF fields.counter > 1
               THEN /\ fields' = [fields EXCEPT !.counter = @ - 1]
                    /\ current_state' = s1
                    /\ last_transition' = l1
                    /\ output' = "Counter"
               ELSE IF fields.counter = 1
               THEN /\ fields' = [fields EXCEPT !.counter = 0]
                    /\ current_state' = generalized_target(s1, "decrement_to_zero")
                    /\ last_transition' = generalized_last(s1, "decrement_to_zero", l1)
                    /\ output' = "Counter"
               ELSE /\ UNCHANGED fields
                    /\ current_state' = s1
                    /\ last_transition' = l1
                    /\ output' = "Counter is already at zero"

\* AuthorListCLI.do_add_author
DoAddAuthor ==
    \E l \in ConceptLines :
        /\ ConceptEnter(l, "add_author")
        /\ "add_author" \in generalized_get_available_commands
        /\ ConceptTransition("add_author")
        /\ fields' = [fields EXCEPT !.authors = Append(@, parseline(Effective(l)).arg)]
        /\ output' = "Added author"

\* AuthorListCLI.do_select_model
DoSelectModel ==
    \E l \in ConceptLines :
        /\ ConceptEnter(l, "select_model")
        /\ "select_model" \in generalized_get_available_commands
        /\ ConceptTransition("select_model")
        /\ IF parseline(Effective(l)).arg \in available_models
           THEN /\ fields' = [fields EXCEPT !.current_model = parseline(Effective(l)).arg]
                /\ output' = "Selected model"
           ELSE /\ UNCHANGED fields
                /\ output' = "Invalid model."

\* AuthorListCLI.do_set_output_file
DoSetOutputFile ==
    \E l \in ConceptLines :
        /\ ConceptEnter(l, "set_output_file")
        /\ "set_output_file" \in generalized_get_available_commands
        /\ ConceptTransition("set_output_file")
        /\ fields' = [fields EXCEPT !.output_file = parseline(Effective(l)).arg]
        /\ output' = "Output file set"

\* the handlers that only print: do_show, do_list_authors, do_show_settings,
\* do_analyze_authors, do_exit
DoPrint ==
    \E l \in ConceptLines,
       c \in {"show", "list_authors", "show_settings", "analyze_authors", "exit"} :
        /\ ConceptEnter(l, c)
        /\ c \in generalized_get_available_commands
        /\ c \in has_do
        /\ ConceptTransition(c)
        /\ UNCHANGED fields
        /\ output' = IF c = "list_authors" /\ fields.authors = <<>>
                     THEN "No authors added yet." ELSE c

NextConcept ==
    \/ ConceptEmptyLine
    \/ ConceptRejected
    \/ ConceptNoHandler
    \/ DoIncrement
    \/ DoDecrement
    \/ DoAddAuthor
    \/ DoSelectModel
    \/ DoSetOutputFile
    \/ DoPrint

SpecConcept == InitConcept /\ [][NextConcept]_vars

\* =================================================================== SpecUI
\* The pure functions around the prompt: CommandCompleter.get_completions
\* over the text typed so far (cursor at its end),
\* GenericCLI._register_commands over the decorated attributes of a CLI class,
\* and the wrapper input_required_command puts around a handler.

\* decorated handler attributes of a CLI class
MaxDecls == 3

\* the characters of a command name
chars(n) ==
    IF n = "help" THEN <<"h", "e", "l", "p">>
    ELSE IF n = "exit" THEN <<"e", "x", "i", "t">>
    ELSE IF n = "new_session" THEN <<"n", "e", "w", "_", "s", "e", "s", "s", "i", "o", "n">>
    ELSE IF n = "load_session" THEN <<"l", "o", "a", "d", "_", "s", "e", "s", "s", "i", "o", "n">>
    ELSE IF n = "list_sessions" THEN <<"l", "i", "s", "t", "_", "s", "e", "s", "s", "i", "o", "n", "s">>
    ELSE IF n = "add_author" THEN <<"a", "d", "d", "_", "a", "u", "t", "h", "o", "r">>
    ELSE <<"l", "i", "s", "t", "_", "a", "u", "t", "h", "o", "r", "s">>

\* the texts typed at the prompt when completion is requested
Documents ==
    {<<>>,
     <<"h">>,
     <<"h", "e">>,
     <<"h", "e", "l", "p">>,
     <<"h", "e", "l", "p", " ">>,
     <<" ", "h", "e">>,
     <<" ", " ">>,
     <<"l">>,
     <<"l", "i">>,
     <<"l", "i", "s", "t", "_">>,
     <<"l", "i", "s", "t", "_", "a">>,
     <<"e">>,
     <<"x">>,
     <<"a", "d", "d", "_", "a", "u", "t", "h", "o", "r">>,
     <<"a", "d", "d", "_", "a", "u", "t", "h", "o", "r", " ", "x">>,
     <<"a">>,
     <<"h", "e", "l", "p", " ", "h", "e">>,
     <<"n">>,
     <<"l", "o">>}

\* ' ' in line
HasSpace(text) ==
    \E i \in DOMAIN text : text[i] = " "

\* Document.get_word_before_cursor(WORD=True) with the cursor at the end: the
\* characters after the last whitespace, empty when the text ends in whitespace
get_word_before_cursor(text) ==
    LET spaces == {i \in DOMAIN text : text[i] = " "}
        last == IF spaces = {} THEN 0
                ELSE CHOOSE i \in spaces : \A j \in spaces : j <= i
    IN  SubSeq(text, last + 1, Len(text))

\* str.startswith
startswith(s, prefix) ==
    /\ Len(prefix) <= Len(s)
    /\ SubSeq(s, 1, Len(prefix)) = prefix

\* CommandCompleter.get_completions(document): the completions yielded, and
\* whether get_command_specific_completions was called (GenericCLICompleter's
\* returns no candidates)
get_completions(text) ==
    LET word_before_cursor == get_word_before_cursor(text)
    IN  IF ~HasSpace(text)
        THEN [candidates |-> {c \in get_available_commands :
                                 startswith(chars(c), word_before_cursor)},
              specific |-> FALSE]
        ELSE [candidates |-> {}, specific |-> TRUE]

\* the @command declarations a CLI class may carry, in dir() order
Declarations ==
    UNION {[1..n -> [name : UserCommands, description : {"d1", "d2"}]] : n \in 0..MaxDecls}

\* the completer is asked for the completions of a text
GetCompletions ==
    \E text \in Documents :
        /\ pc = "idle"
        /\ call.op = None
        /\ call' = [op |-> "get_completions", arg |-> text, ret |-> get_completions(text)]
        /\ UNCHANGED <<smvars, stvars, clivars, ctlvars,
                       pre, handler_ran, returned_in, raised, moved, notified, output>>

\* a CLI with the given declarations is constructed
RegisterCommands ==
    \E decls \in Declarations :
        /\ pc = "idle"
        /\ call.op = None
        /\ call' = [op |-> "_register_commands", arg |-> decls,
                    ret |-> register_commands(decls)]
        /\ UNCHANGED <<smvars, stvars, clivars, ctlvars,
                       pre, handler_ran, returned_in, raised, moved, notified, output>>

\* the wrapper of input_required_command(prompt, error_message) called with
\* arg, when input(prompt) would return user_input and the wrapped handler r:
\* whether the handler was called, with which argument, and what is returned
input_required_command(prompt, a, user_input, r) ==
    IF prompt # None /\ a = "" /\ user_input = ""
    THEN [called |-> FALSE, arg |-> None, ret |-> "CANCEL_TRANSITION"]
    ELSE [called |-> TRUE,
          arg |-> IF prompt # None /\ a = "" THEN user_input ELSE a,
          ret |-> IF r = None THEN "CONTINUE" ELSE r]

\* a handler decorated with input_required_command is called by onecmd
CallWrappedHandler ==
    \E prompt \in {None, "Name: "}, a \in {"", "x"}, user_input \in {"", "y"},
       r \in HandlerResults :
        /\ pc = "idle"
        /\ call.op = None
        /\ call' = [op |-> "input_required_command",
                    arg |-> <<prompt, a, user_input>>,
                    ret |-> input_required_command(prompt, a, user_input, r)]
        /\ UNCHANGED <<smvars, stvars, clivars, ctlvars,
                       pre, handler_ran, returned_in, raised, moved, notified, output>>

NextUI ==
    \/ GetCompletions
    \/ RegisterCommands
    \/ CallWrappedHandler

SpecUI == Init /\ [][NextUI]_vars

\* ================================================================== claims
\* the always-available names, as the specification lists them
SpecAlwaysAvailable ==
    {"help", "exit", "new_session", "load_session", "list_sessions"}

\* the machine (current state, last transition) before the dispatch cycle
PreMachine ==
    [current_state |-> pre.current_state, last_transition |-> pre.last_transition]

\* the session (active session, its content, the files) is as before the cycle
SessionAsBefore ==
    /\ shared_storage = pre.shared_storage
    /\ files = pre.files
    /\ current_session = pre.current_session
    /\ current_storage = pre.current_storage

\* onecmd was entered for `line` in this cycle and has got past parseline
Dispatched ==
    /\ pre # NoSnapshot
    /\ pc \in {"execute", "transition", "notify", "return", "crashed", "prompt"}
    /\ raised # "precmd:TypeError"

\* the handler of this cycle returned and onecmd has got past its transition step
AfterTransitionStep ==
    /\ Dispatched
    /\ returned_in # NoMachine
    /\ pc # "transition"

\* C1: dispatching a command token that is neither a key of the current
\* state's transition map nor one of help, exit, new_session, load_session,
\* list_sessions runs no handler, leaves current state, last_transition and the
\* session unchanged, sends no observer update, prints only the "not available
\* in current state" message, and onecmd returns False.
C1_IllegalCommandRejected ==
    (/\ Dispatched
     /\ cmd \notin {None, ""}
     /\ cmd \notin DOMAIN transitions[pre.current_state]
     /\ cmd \notin SpecAlwaysAvailable)
    => (/\ pc = "return"
        /\ ~handler_ran
        /\ ~moved
        /\ ~notified
        /\ Machine = PreMachine
        /\ SessionAsBefore
        /\ output = "not available in current state"
        /\ stop = "False")

\* C1 witness: after an earlier transition, list_authors (which has a handler)
\* is dispatched in a state whose map lacks it, and is rejected.
C1_Witness ==
    /\ pc = "return"
    /\ cmd = "list_authors"
    /\ "list_authors" \in has_do
    /\ "list_authors" \notin Keys(current_state)
    /\ last_transition # None
    /\ output = "not available in current state"

\* C2 (as claimed): whenever a command C in the transition map of the state S
\* current at dispatch is dispatched and its handler returns anything but the
\* cancel sentinel, the machine ends in S.transitions[C] with last_transition = C.
C2_Original ==
    (/\ AfterTransitionStep
     /\ result # "CANCEL_TRANSITION"
     /\ cmd \in DOMAIN transitions[pre.current_state])
    => (/\ current_state = transitions[pre.current_state][cmd]
        /\ last_transition = cmd)

\* C2 (amended): the same, for handlers that return with the machine's current
\* state still S: the machine ends in S.transitions[C] with last_transition = C.
C2_TransitionApplied ==
    (/\ AfterTransitionStep
     /\ result # "CANCEL_TRANSITION"
     /\ cmd \in DOMAIN transitions[pre.current_state]
     /\ returned_in.current_state = pre.current_state)
    => (/\ moved
        /\ current_state = transitions[pre.current_state][cmd]
        /\ last_transition = cmd)

\* C2 witness: a dispatch whose handler left the machine alone moved it to
\* another state.
C2_Witness ==
    /\ pc = "return"
    /\ moved
    /\ returned_in = PreMachine
    /\ result # "CANCEL_TRANSITION"
    /\ current_state # pre.current_state
    /\ current_state = transitions[pre.current_state][cmd]

\* C3 (as claimed): when the handler returns the cancel sentinel, current state
\* and last_transition after the dispatch equal their values before it.
C3_Original ==
    (AfterTransitionStep /\ result = "CANCEL_TRANSITION")
    => (handler_ran /\ Machine = PreMachine)

\* C3 (amended): when the handler returns the cancel sentinel, the handler has
\* run and onecmd applies no transition: current state and last_transition
\* after the dispatch equal their values at the moment the handler returned
\* (their values before the dispatch, unless the handler itself moved the
\* machine), even when the command is a key of the current state's map.
C3_CancelSuppressesTransition ==
    (AfterTransitionStep /\ result = "CANCEL_TRANSITION")
    => (/\ handler_ran
        /\ ~moved
        /\ Machine = returned_in
        /\ (returned_in = PreMachine => Machine = PreMachine)
        /\ pc = "return"
        /\ stop = "False")

\* C3 witness: a cancelled dispatch of a command whose edge leads to another
\* state.
C3_Witness ==
    /\ pc = "return"
    /\ handler_ran
    /\ result = "CANCEL_TRANSITION"
    /\ cmd \in Keys(current_state)
    /\ transitions[current_state][cmd] # current_state
    /\ Machine = PreMachine

\* C4: StateMachine.transition(c) with c a key of the current state's map sets
\* current state to the mapped target, sets last_transition to c and returns
\* true; otherwise it returns false and leaves current state, last_transition
\* and the active session (data, history, persisted file) unchanged.
C4_TransitionContract ==
    (call.op = "transition")
    => IF call.arg \in DOMAIN transitions[pre.current_state]
       THEN /\ call.ret = TRUE
            /\ current_state = transitions[pre.current_state][call.arg]
            /\ last_transition = call.arg
       ELSE /\ call.ret = FALSE
            /\ Machine = PreMachine
            /\ SessionAsBefore

\* C4 witness: a transition call that failed in a machine whose active session
\* already records an earlier, successful transition.
C4_Witness ==
    /\ call.op = "transition"
    /\ call.ret = FALSE
    /\ app
    /\ last_transition # None
    /\ Len(shared_storage.command_history) > 0

\* C5: GenericCLI.get_available_commands() equals the keys of the current
\* state's transition map united with {help, exit, new_session, load_session,
\* list_sessions}, in every reachable state, so after a transition it is the
\* union for the new current state; the command onecmd lets through to its
\* handler is a member of that union.
C5_AvailableCommands ==
    LET union == {c \in UserCommands : c \in DOMAIN transitions[current_state]}
                     \cup SpecAlwaysAvailable
    IN  /\ get_available_commands = union
        /\ (pc = "execute" => cmd \in union)

\* C5 witness: after a transition, onecmd lets through a command that is a key
\* of the new current state only.
C5_Witness ==
    /\ pc = "execute"
    /\ last_transition # None
    /\ current_state = "authors_added_state"
    /\ cmd \in Keys("authors_added_state")
    /\ cmd \notin Keys("initial_state")

\* C6 (as claimed): after any sequence of add_state, add_transition, transition
\* and change_state calls, the current state is the State object registered
\* under its name: states[current_state.name] is current_state.
C6_CurrentStateRegistered ==
    /\ StateName(current_state) \in DOMAIN states
    /\ states[StateName(current_state)] = current_state

\* C7 (as claimed): when a command handler raises an exception inside cmdloop,
\* the exception is caught and reported, no transition is applied for that
\* command, and cmdloop goes on to the next prompt instead of ending.
C7_HandlerExceptionCaught ==
    (/\ mode = "cmdloop"
     /\ raised \in {"handler:AttributeError", "handler:Exception"})
    => (/\ pc # "crashed"
        /\ ~moved
        /\ Machine = PreMachine)

\* C8 (as claimed): dispatching an empty input line runs no handler, leaves
\* current state, last_transition and the active session unchanged, sends no
\* observer update, and onecmd returns to the prompt, whatever command was
\* dispatched before it.
C8_EmptyLineNoOp ==
    (/\ pre # NoSnapshot
     /\ input = <<>>
     /\ raised # "precmd:TypeError")
    => (/\ ~handler_ran
        /\ ~moved
        /\ ~notified
        /\ Machine = PreMachine
        /\ SessionAsBefore)

\* C9: when a handler has returned and onecmd returns without an exception,
\* onecmd returns true exactly if the handler's value is the exit sentinel
\* "EXIT"; cmdloop then stops after an "EXIT" and goes on to the next prompt
\* after any other value (None, "CONTINUE", true, false, the cancel sentinel).
C9_ExitSentinel ==
    [][(/\ pc = "return"
        /\ returned_in # NoMachine
        /\ raised = None)
       => (/\ (stop = "True") <=> (result = "EXIT")
           /\ (mode = "cmdloop" =>
                  pc' = IF result = "EXIT" THEN "done" ELSE "prompt"))]_vars

\* C9 witness: inside cmdloop a handler returned "EXIT" and onecmd returned true.
C9_Witness ==
    /\ mode = "cmdloop"
    /\ pc = "return"
    /\ handler_ran
    /\ raised = None
    /\ result = "EXIT"
    /\ stop = "True"

\* C10 (as claimed): exit is accepted in every state and dispatching it ends
\* the dispatch loop; stated for a CLI with GenericCLI's handlers and no do_exit
\* of its own (DemoCLI): the cycle of an exit line ends with onecmd returning
\* true.
C10_ExitTerminates ==
    (/\ mode = "cmdloop"
     /\ "exit" \notin has_do
     /\ Dispatched
     /\ cmd = "exit"
     /\ pc = "return")
    => stop = "True"

\* a is a prefix of b
IsPrefix(a, b) ==
    /\ Len(a) <= Len(b)
    /\ SubSeq(b, 1, Len(a)) = a

\* the call just made is create_session(n) or do_new_session(n) with a name
\* do_new_session passes on
CreateCalled ==
    \/ call.op = "create_session"
    \/ call.op = "do_new_session" /\ call.arg # ""

\* the call just made is load_session(n) or do_load_session(n) with a name
\* do_load_session passes on
LoadCalled ==
    \/ call.op = "load_session"
    \/ call.op = "do_load_session" /\ call.arg # ""

\* C11: StorageManager.create_session(name), when no session of that name is
\* persisted, creates a session with the version tag, empty data and empty
\* history, writes it to the file for that name (leaving every other file),
\* and makes it the active session: current_session = name, shared_storage is
\* the new session and, through do_new_session, so is the CLI's current_storage.
C11_CreateSession ==
    (CreateCalled /\ call.arg \notin DOMAIN pre.files)
    => (/\ shared_storage =
              [version |-> "1.0.0", data |-> EmptyDict, command_history |-> <<>>]
        /\ DOMAIN files = DOMAIN pre.files \cup {call.arg}
        /\ files[call.arg] =
              [version |-> "1.0.0", data |-> EmptyDict, command_history |-> <<>>]
        /\ \A n \in DOMAIN pre.files : files[n] = pre.files[n]
        /\ current_session = call.arg
        /\ (call.op = "do_new_session" => current_storage = "shared_storage"))

\* C11 witness: do_new_session created n1 while another session, one with
\* history, was active.
C11_Witness ==
    /\ call.op = "do_new_session"
    /\ call.arg = "n1"
    /\ current_session = "n1"
    /\ pre.current_session \notin {None, "n1"}
    /\ Len(pre.shared_storage.command_history) > 0
    /\ shared_storage.command_history = <<>>

\* C12: creating a session whose name is already persisted fails with the
\* already-exists error, leaves every persisted file as it was and leaves the
\* previously active session (current_session, shared_storage, the CLI's
\* current_storage) unchanged.
C12_CreateExisting ==
    (CreateCalled /\ call.arg \in DOMAIN pre.files)
    => (/\ SessionAsBefore
        /\ IF call.op = "create_session"
           THEN call.ret = "ValueError: already exists"
           ELSE output = "Error: already exists")

\* C12 witness: create_session failed for a persisted session with history
\* while a different session was active.
C12_Witness ==
    /\ call.op = "create_session"
    /\ call.ret = "ValueError: already exists"
    /\ current_session \notin {None, call.arg}
    /\ Len(files[call.arg].command_history) > 0

\* C13: StorageManager.load_session(name): when no session of that name is
\* persisted it fails with the does-not-exist error and changes neither the
\* active session nor any file; otherwise the active session becomes name with
\* exactly the version, data and history held by that session's file, and no
\* file changes.  (A file that holds no JSON document holds none of the three;
\* what a load of it leaves behind is the subject of C36.)
C13_LoadSession ==
    LoadCalled
    => IF call.arg \notin DOMAIN pre.files
       THEN /\ SessionAsBefore
            /\ IF call.op = "load_session"
               THEN call.ret = "ValueError: does not exist"
               ELSE output = "Error: does not exist"
       ELSE IF from_json_raises(pre.files[call.arg])
       THEN TRUE
       ELSE /\ current_session = call.arg
            /\ shared_storage.version = pre.files[call.arg].version
            /\ shared_storage.data = pre.files[call.arg].data
            /\ shared_storage.command_history = pre.files[call.arg].command_history
            /\ files = pre.files
            /\ (call.op = "do_load_session" => current_storage = "shared_storage")

\* C13 witness: a load replaced the active session's content by a file's
\* content that carries history.
C13_Witness ==
    /\ LoadCalled
    /\ call.arg \in DOMAIN pre.files
    /\ pre.current_session \notin {None, call.arg}
    /\ shared_storage # pre.shared_storage
    /\ Len(shared_storage.command_history) > 0

\* C14 (as claimed): after the active session has been saved, loading the same
\* session name gives a data mapping equal to the saved one and a
\* command_history equal to the saved one, in the same order.
C14_RoundTrip ==
    (call.op = "save_current_session" /\ call.ret = None)
    => (/\ from_json(files[current_session]).data = shared_storage.data
        /\ from_json(files[current_session]).command_history
               = shared_storage.command_history)

\* C15 (as claimed): StorageManager.update_data(key, value) with an active
\* session sets data[key] = value, leaves the other keys, appends exactly one
\* history entry describing the update, and persists the session.
C15_UpdateData ==
    (call.op = "update_data" /\ pre.current_session # None)
    => (/\ shared_storage.data[call.arg[1]] = call.arg[2]
        /\ \A k \in DOMAIN pre.shared_storage.data \ {call.arg[1]} :
               shared_storage.data[k] = pre.shared_storage.data[k]
        /\ DOMAIN shared_storage.data = DOMAIN pre.shared_storage.data \cup {call.arg[1]}
        /\ Len(shared_storage.command_history)
               = Len(pre.shared_storage.command_history) + 1
        /\ IsPrefix(pre.shared_storage.command_history, shared_storage.command_history)
        /\ call.ret = None
        /\ files[current_session] = to_json(shared_storage))

\* C16: with no active session, each of update_data, get_data,
\* add_command_result, get_command_history and save_current_session fails
\* with the no-active-session error and changes neither the manager's state
\* nor any persisted file.
C16_NoActiveSession ==
    (/\ call.op \in {"update_data", "get_data", "add_command_result",
                     "get_command_history", "save_current_session"}
     /\ pre.current_session = None
     /\ pre.shared_storage = NoStorage)
    => (/\ IF call.op = "get_command_history"
           THEN call.ret = <<NoActiveSession>>
           ELSE call.ret = NoActiveSession
        /\ SessionAsBefore)

\* C16 witness: update_data failed in a manager without a session, over a
\* directory that holds a file.
C16_Witness ==
    /\ call.op = "update_data"
    /\ call.ret = NoActiveSession
    /\ current_session = None
    /\ shared_storage = NoStorage
    /\ files # EmptyDict

\* C17: while one session stays active, its command_history is append-only:
\* every update_data, add_command_result, state change of the machine and
\* save keeps the entries it had, in their order, in the storage object and in
\* the session's file, and adds entries only at the end.
C17_HistoryAppendOnly ==
    [][(/\ call'.op \in {"update_data", "add_command_result", "transition",
                         "save_current_session"}
        /\ current_session # None
        /\ current_session' = current_session)
       => (/\ IsPrefix(shared_storage.command_history, shared_storage'.command_history)
           /\ IsPrefix(files[current_session].command_history,
                       files'[current_session].command_history))]_vars

\* C17 witness: a state change of the machine appended to a history that began
\* with an update_data entry.
C17_Witness ==
    /\ call.op = "transition"
    /\ Len(shared_storage.command_history) = 2
    /\ shared_storage.command_history[1].command = "update_data: k"
    /\ shared_storage.command_history[2].command = "add_author"
    /\ files[current_session] = to_json(shared_storage)

\* C18 (as claimed): with a session active in a GenericCLI, a dispatched
\* command that transitions the machine has, when onecmd returns, the new
\* current-state name and a (command, result, timestamp) entry recorded in the
\* session, and the session written to its file.
C18_TransitionPersisted ==
    (/\ pc = "return"
     /\ moved
     /\ pre.current_storage # None)
    => (/\ "current_state" \in DOMAIN shared_storage.data
        /\ shared_storage.data["current_state"] = StateName(current_state)
        /\ Len(shared_storage.command_history) > 0
        /\ shared_storage.command_history[Len(shared_storage.command_history)].command = cmd
        /\ files[current_session] = to_json(shared_storage))

\* C19 (as claimed): the observer is handed an update in every dispatch cycle
\* in which a legal command's handler ran without error, the cycles in which
\* the handler returned the cancel sentinel included.
C19_ObserverUpdated ==
    (/\ pc = "return"
     /\ handler_ran
     /\ returned_in # NoMachine
     /\ raised = None)
    => notified

\* C20 (as claimed): a failure raised by send_update does not abort the
\* dispatch loop: the transition stays applied, onecmd returns and cmdloop
\* goes on to the next prompt.
C20_ObserverFailureContained ==
    (/\ mode = "cmdloop"
     /\ raised \in {"observer:AttributeError", "observer:Exception"})
    => (/\ pc = "return"
        /\ Machine.current_state
               = IF moved THEN transitions[returned_in.current_state][cmd]
                 ELSE returned_in.current_state)

\* C21: when writing the session file fails while a transition is persisted,
\* nothing in memory is rolled back: current state and last_transition have
\* their new values and the storage object holds the state name and the entry
\* appended for that transition, while the file is as it was, so memory and
\* disk differ; a successful save makes the file equal to memory again.
C21_NoRollbackOnSaveFailure ==
    /\ (call.op = "transition" /\ "exc" \in DOMAIN call)
       => (/\ current_state = transitions[pre.current_state][call.arg]
           /\ last_transition = call.arg
           /\ shared_storage.data["current_state"] = StateName(current_state)
           /\ shared_storage.command_history =
                  Append(pre.shared_storage.command_history,
                         [command |-> call.arg,
                          result |-> [state |-> StateName(current_state)],
                          timestamp |-> "isoformat"])
           /\ files = pre.files
           /\ files[current_session] # to_json(shared_storage))
    /\ (call.op = "save_current_session" /\ call.ret = None)
       => files[current_session] = to_json(shared_storage)

\* C21 witness: a save succeeded after a transition whose save had failed
\* with the machine in a new state.
C21_Witness ==
    /\ call.op = "save_current_session"
    /\ call.ret = None
    /\ last_transition # None
    /\ current_state # "initial_state"
    /\ pre.files[current_session] # to_json(pre.shared_storage)
    /\ pre.files[current_session].command_history = <<>>
    /\ Len(shared_storage.command_history) = 1
    /\ shared_storage.command_history[1].command = last_transition

\* C28: switching sessions replaces the active session wholesale: after a
\* successful create or load of session B while another session A is active,
\* the active data and history are exactly B's (empty for create, the file's
\* content for load), whatever A held, and A's file is as it was.
C28_SwitchReplacesSession ==
    (/\ CreateCalled \/ LoadCalled
     /\ pre.current_session \notin {None, call.arg}
     /\ current_session = call.arg
     /\ LoadCalled => ~from_json_raises(pre.files[call.arg]))
    => (/\ IF CreateCalled
           THEN /\ shared_storage.data = EmptyDict
                /\ shared_storage.command_history = <<>>
           ELSE /\ shared_storage.data = pre.files[call.arg].data
                /\ shared_storage.command_history = pre.files[call.arg].command_history
        /\ files[pre.current_session] = pre.files[pre.current_session])

\* C28 witness: a load switched from a session holding data and history to a
\* session whose file holds different, non-empty content.
C28_Witness ==
    /\ LoadCalled
    /\ pre.current_session \notin {None, call.arg}
    /\ current_session = call.arg
    /\ pre.shared_storage.data # EmptyDict
    /\ Len(pre.shared_storage.command_history) > 0
    /\ Len(shared_storage.command_history) > 0
    /\ shared_storage.command_history # pre.shared_storage.command_history

\* the command names among the lines dispatched so far
DispatchedCommands ==
    {parseline(dispatched[i]).cmd : i \in DOMAIN dispatched}

\* C22 (as claimed): in the CounterCLI, after any sequence of commands
\* dispatched through onecmd from the initial state, the current state is zero
\* exactly when counter = 0 and positive exactly when counter >= 1.
C22_CounterStateMatchesCounter ==
    (has_do = CounterHandlers)
    => /\ (current_state = "zero_state") <=> (fields.counter = 0)
       /\ (current_state = "positive_state") <=> (fields.counter >= 1)

\* C23: in the AuthorListCLI the current state is determined by which of
\* add_author and select_model have been dispatched since the start: initial
\* (neither), authors_added (only add_author), model_selected (only
\* select_model), ready (both); and a dispatch of list_authors, show_settings
\* or set_output_file leaves the current state as it was.
C23_AuthorListStates ==
    /\ [](has_do = AuthorListHandlers =>
            current_state =
                IF "add_author" \in DispatchedCommands
                THEN IF "select_model" \in DispatchedCommands
                     THEN "ready_state" ELSE "authors_added_state"
                ELSE IF "select_model" \in DispatchedCommands
                     THEN "model_selected_state" ELSE "initial_state")
    /\ [][(/\ has_do = AuthorListHandlers
           /\ Len(dispatched') = Len(dispatched) + 1
           /\ parseline(dispatched'[Len(dispatched')]).cmd
                  \in {"list_authors", "show_settings", "set_output_file"})
          => current_state' = current_state]_vars

\* C23 witness: select_model (with a model the CLI does not know), then
\* list_authors, then add_author have been dispatched and the CLI is in ready.
C23_Witness ==
    /\ has_do = AuthorListHandlers
    /\ Len(dispatched) = 3
    /\ dispatched[1] = <<"select_model", "gpt">>
    /\ dispatched[2] = <<"list_authors">>
    /\ dispatched[3] = <<"add_author", "a">>
    /\ current_state = "ready_state"
    /\ fields.current_model = None

\* C24: State.add_transition(c, t) on a state sets that state's edge for c to
\* t, replacing an edge it already had for c, and leaves every other edge of
\* that state, every edge of every other state and the registry unchanged;
\* StateMachine.add_state(s) registers s under s.name, replacing a state
\* already registered under that name, and leaves every other registration and
\* every edge unchanged.
C24_AddReplaces ==
    [][/\ call'.op = "add_transition" =>
            LET o == call'.arg[1]
                c == call'.arg[2]
                t == call'.arg[3]
            IN  /\ DOMAIN transitions'[o] = DOMAIN transitions[o] \cup {c}
                /\ transitions'[o][c] = t
                /\ \A d \in DOMAIN transitions[o] \ {c} :
                       transitions'[o][d] = transitions[o][d]
                /\ \A p \in StateObjs \ {o} : transitions'[p] = transitions[p]
                /\ states' = states
       /\ call'.op = "add_state" =>
            LET o == call'.arg
            IN  /\ DOMAIN states' = DOMAIN states \cup {StateName(o)}
                /\ states'[StateName(o)] = o
                /\ \A n \in DOMAIN states \ {StateName(o)} : states'[n] = states[n]
                /\ transitions' = transitions
      ]_vars

\* C24 witness: the machine followed initial's add_author edge to
\* authors_added_state, and add_transition has since pointed that edge at
\* other_state, next to an untouched list_authors edge.
C24_Witness ==
    /\ call.op = "add_transition"
    /\ call.arg = <<"initial_state", "add_author", "other_state">>
    /\ current_state = "authors_added_state"
    /\ last_transition = "add_author"
    /\ DOMAIN transitions["initial_state"] = {"add_author", "list_authors"}
    /\ transitions["initial_state"]["add_author"] = "other_state"

\* C25 (as claimed): help entered with no argument at a cmdloop prompt lists
\* exactly the commands that are legal in the current state (the keys of the
\* current state and the always-available commands), each with its
\* description, and no command that is illegal there.
C25_HelpListsLegalCommands ==
    (call.op = "do_help" /\ call.arg = "" /\ mode = "cmdloop")
    => DOMAIN call.ret = Keys(pre.current_state) \cup always_available

\* the text holds a complete command token: a non-blank character with a
\* blank somewhere after it
HasCompleteCommandToken(text) ==
    \E i \in DOMAIN text, j \in DOMAIN text : i < j /\ text[i] # " " /\ text[j] = " "

\* C26 (as claimed): while the input line does not yet contain a complete
\* command token, the candidates offered are exactly the commands available in
\* the current state whose name starts with the word being typed; the
\* command-specific completion interface is consulted only when the line
\* already contains a complete command token.
C26_CompletionOfCommandNames ==
    call.op = "get_completions" =>
        /\ ~HasCompleteCommandToken(call.arg) =>
               call.ret.candidates =
                   {c \in get_available_commands :
                       startswith(chars(c), get_word_before_cursor(call.arg))}
        /\ call.ret.specific => HasCompleteCommandToken(call.arg)

\* C27: when several handler operations declare the same command name, the
\* registry built at construction holds exactly one entry for that name, the
\* one registered last, and exactly one entry for every other declared name.
C27_LastRegistrationWins ==
    call.op = "_register_commands" =>
        LET decls == call.arg
            last(n) == CHOOSE i \in DOMAIN decls :
                           /\ decls[i].name = n
                           /\ \A j \in DOMAIN decls : decls[j].name = n => j <= i
        IN  /\ DOMAIN call.ret = {decls[i].name : i \in DOMAIN decls}
            /\ \A n \in DOMAIN call.ret : call.ret[n] = decls[last(n)].description

\* C27 witness: add_author is declared twice with different descriptions,
\* list_authors once in between, and the registry has been built.
C27_Witness ==
    /\ call.op = "_register_commands"
    /\ call.arg = <<[name |-> "add_author", description |-> "d1"],
                    [name |-> "list_authors", description |-> "d1"],
                    [name |-> "add_author", description |-> "d2"]>>
    /\ call.ret = ("add_author" :> "d2") @@ ("list_authors" :> "d1")

\* C29: within one dispatch cycle of onecmd the steps occur in the order
\* Validate, Execute, Transition, Notify: the handler of a legal command runs
\* while the machine is still in the pre-transition state, the transition is
\* applied only after the handler has returned, and the observer is notified
\* only after the transition.
C29_StepOrder ==
    /\ pc = "execute" =>
          /\ cmd \in Keys(pre.current_state) \cup always_available
          /\ Machine = PreMachine
          /\ ~handler_ran /\ ~moved /\ ~notified
    /\ pc = "transition" => handler_ran /\ returned_in # NoMachine /\ ~moved /\ ~notified
    /\ moved => handler_ran /\ returned_in # NoMachine
    /\ pc = "notify" => handler_ran /\ returned_in # NoMachine /\ ~notified
    /\ notified => AfterTransitionStep

\* C29 witness: a cycle has run the handler, then moved the machine, then
\* notified the observer, and is about to return.
C29_Witness ==
    /\ pc = "return"
    /\ handler_ran
    /\ returned_in = PreMachine
    /\ moved
    /\ current_state # pre.current_state
    /\ notified

\* C30: the Transition step looks the command up in the transition map of the
\* state that is current after the handler returned: when the handler did not
\* cancel, the command is applied from that state if it is a key there, and the
\* machine stays as the handler left it if it is not.
C30_LookupAfterHandler ==
    (AfterTransitionStep /\ pc \in {"notify", "return"} /\ ~is_cancel(result))
    => IF cmd \in Keys(returned_in.current_state)
       THEN /\ moved
            /\ current_state = transitions[returned_in.current_state][cmd]
            /\ last_transition = cmd
       ELSE /\ ~moved
            /\ Machine = returned_in

\* C30 witness: the handler of add_author moved the machine from initial to
\* authors_added along list_authors, and the Transition step then applied
\* add_author from authors_added, back to initial.
C30_Witness ==
    /\ pc = "return"
    /\ cmd = "add_author"
    /\ pre.current_state = "initial_state"
    /\ returned_in = [current_state |-> "authors_added_state", last_transition |-> "list_authors"]
    /\ moved
    /\ current_state = "initial_state"
    /\ last_transition = "add_author"

\* C31: no dispatch of a command through onecmd and no call of
\* StateMachine.transition modifies any state's transition map, the machine's
\* state registry or the CLI's command registry: at any later point they equal
\* those at construction.
C31_GraphAndRegistryFixed ==
    [][/\ transitions' = transitions
       /\ states' = states
       /\ commands' = commands]_vars

\* C31 witness: back at the prompt after a dispatch that moved the machine
\* along an edge of the graph, which is still there.
C31_Witness ==
    /\ mode = "cmdloop"
    /\ pc = "prompt"
    /\ last_transition = "add_author"
    /\ current_state = "authors_added_state"
    /\ transitions["initial_state"]["add_author"] = "authors_added_state"
    /\ lastcmd = <<"add_author">>

\* C40 (as claimed): in the AuthorListCLI, whenever the current state is
\* ready, current_model is one of the available models.
C40_ReadyHasModel ==
    (has_do = AuthorListHandlers /\ current_state = "ready_state")
    => fields.current_model \in available_models

\* C32 (as claimed): an interrupt signal aborts only the prompt that is
\* waiting for input: it never ends the loop and never cuts short a handler
\* that has started, so every started handler is followed by its Transition
\* and Notify steps.
C32_InterruptAbortsOnlyPrompt ==
    /\ output = "^C" => (mode = "cmdloop" /\ pc = "prompt")
    /\ (mode = "cmdloop" /\ pc = "prompt" /\ handler_ran) => returned_in # NoMachine

\* C33: dispatching a command name that is a key of the current state but has
\* no handler never moves the machine and never changes last_transition.
C33_UnhandledEdgeHarmless ==
    (/\ pc = "return"
     /\ pre # NoSnapshot
     /\ cmd \in Keys(pre.current_state)
     /\ cmd \notin has_do)
    => /\ Machine = PreMachine
       /\ ~moved
       /\ ~handler_ran
       /\ ~notified

\* C33 witness: list_authors, an edge of the current state leading elsewhere
\* and without a handler in this CLI, has been dispatched and answered.
C33_Witness ==
    /\ pc = "return"
    /\ cmd = "list_authors"
    /\ "list_authors" \notin has_do
    /\ "list_authors" \in Keys(current_state)
    /\ transitions[current_state]["list_authors"] # current_state
    /\ output = "unknown syntax"
    /\ Machine = PreMachine

\* C34 (as claimed): whenever a session is active, cmdloop saves the active
\* session to its session file before dispatching each input line (precmd),
\* and then proceeds to dispatch that line.
C34_SavedBeforeDispatch ==
    (/\ mode = "cmdloop"
     /\ pre # NoSnapshot
     /\ pre.current_storage # None
     /\ ~handler_ran
     /\ pc \in {"onecmd", "crashed"})
    => /\ pc = "onecmd"
       /\ files[current_session] = to_json(shared_storage)

\* C35 (as claimed): every update of session data made through
\* SharedStorage.update_data, including the current_state update the state
\* machine makes on each state change, is also logged as an entry in that
\* session's command history.
C35_UpdatesLogged ==
    (/\ pre # NoSnapshot
     /\ app
     /\ pre.current_storage # None
     /\ \/ call.op = "transition" /\ call.ret
        \/ call.op = "change_state" /\ call.arg \in DOMAIN states)
    => Len(shared_storage.command_history) > Len(pre.shared_storage.command_history)

\* C36 (as claimed): after any sequence of create_session and load_session
\* calls, whether they succeed or fail (including a load whose persisted file
\* exists but cannot be deserialized), current_session names the session whose
\* content shared_storage holds, so that save_current_session never writes
\* one session's content into another session's file.
C36_NameMatchesContent ==
    (CreateCalled \/ LoadCalled)
    => \/ /\ current_session = pre.current_session
          /\ shared_storage = pre.shared_storage
       \/ /\ current_session = call.arg
          /\ to_json(shared_storage) = files[call.arg]

\* the StorageManager call just made returned without raising
ReturnedSuccessfully ==
    \/ call.op \in {"create_session", "load_session"} /\ call.ret = "storage"
    \/ call.op \in {"update_data", "add_command_result", "save_current_session"}
       /\ call.ret = None

\* C37: after every StorageManager operation that returns successfully
\* (create_session, load_session, update_data, add_command_result,
\* save_current_session), the persisted file of the active session holds
\* exactly the in-memory version, data and command_history of the active
\* session, in the form to_json writes them.
C37_FileMatchesMemory ==
    ReturnedSuccessfully
    => /\ current_session \in DOMAIN files
       /\ files[current_session] = to_json(shared_storage)

\* C37 witness: a second update_data has returned and has rewritten the
\* active session's file, which now holds both history entries.
C37_Witness ==
    /\ call.op = "update_data"
    /\ call.ret = None
    /\ Len(shared_storage.command_history) = 2
    /\ pre.files[current_session] # files[current_session]
    /\ Len(files[current_session].command_history) = 2

\* C38 (as claimed): a handler wrapped by input_required_command is never
\* invoked with an empty argument: when the command line carries no argument
\* and none is entered at the wrapper's prompt, the wrapper returns the cancel
\* sentinel without calling the handler.
C38_NoEmptyArgument ==
    call.op = "input_required_command" =>
        /\ call.ret.called => call.ret.arg # ""
        /\ (call.arg[2] = "" /\ (call.arg[1] = None \/ call.arg[3] = ""))
           => (~call.ret.called /\ is_cancel(call.ret.ret))

\* C39: new_session, load_session and list_sessions, when they are not keys of
\* the current state's transition map, never change the machine's current
\* state or last_transition; in particular loading a session whose data
\* records a different current_state does not move the machine to that state.
C39_SessionCommandsKeepMachine ==
    (/\ pc \in {"transition", "notify", "return"}
     /\ pre # NoSnapshot
     /\ cmd \in {"new_session", "load_session", "list_sessions"}
     /\ cmd \notin Keys(pre.current_state))
    => /\ Machine = PreMachine
       /\ ~moved

\* C39 witness: load_session has loaded a session whose data records
\* authors_added while the machine is in initial, and the cycle is over.
C39_Witness ==
    /\ pc = "return"
    /\ cmd = "load_session"
    /\ output = "loaded and activated"
    /\ current_storage # None
    /\ "current_state" \in DOMAIN shared_storage.data
    /\ shared_storage.data["current_state"] = "authors_added"
    /\ current_state = "initial_state"
    /\ notified

====
